---- MODULE Spec2Model ----
(***************************************************************************)
(* Inventory-management pipeline: ABC (Pareto) classification, LMH demand  *)
(* variability classification, nine-box segmentation, inventory math       *)
(* (safety stock, reorder point, EOQ) and the recommendation rules.        *)
(*                                                                         *)
(* Numbers.  The code computes in IEEE doubles.  A number is modelled as a *)
(* record [k, n, d, r]: k is "nan", "inf", "ninf" or "fin"; a finite       *)
(* number is the exact rational n/d (r = FALSE) or the exact signed root   *)
(* sgn(n)*sqrt(|n|/d) (r = TRUE).  Rounding error of doubles is not        *)
(* modelled; NaN and the infinities propagate as IEEE 754 prescribes.      *)
(***************************************************************************)
EXTENDS Integers, Sequences, FiniteSets, TLC

VARIABLES
    pc,      \* position of the scenario being run
    call,    \* inventory_math: the function called and its arguments
    result,  \* inventory_math: the value returned
    sales,   \* the sales / demand-history table (sequence of rows)
    inv,     \* the Parts table (sequence of rows)
    cfg,     \* configuration: months, vod_thresholds, min_transactions
    now,     \* the clock: the calendar month pd.Timestamp.now() falls in
    abc,     \* output of abc_classification (rows in rank order)
    lmh,     \* output of lmh_vod_classification (rows by PartNum)
    nine,    \* output of make_nine_box
    params,  \* the InventoryParams table (input of compute_actions)
    recs,    \* the Recommendations table (output of compute_actions)
    prev,    \* Action of the previous round (feedback scenario)
    runs     \* outputs of the completed pipeline runs

vars == <<pc, call, result, sales, inv, cfg, now, abc, lmh, nine, params, recs, prev, runs>>

None == "none"

(***************************************************************************)
(* Bounds of the model.                                                    *)
(***************************************************************************)
MaxArg == 2        \* inventory_math arguments range over -1..MaxArg and NaN, +-inf
MaxQty == 3        \* OnHandQty ranges over 0..MaxQty
MaxPO == 1         \* TotalPOQty ranges over 0..MaxPO
MaxRop == 2        \* ReorderPoint of a free row ranges over -1..MaxRop
MaxEoq == 2        \* EOQ of a free row ranges over -2..MaxEoq
MaxCost == 2       \* UnitCost ranges over 1..MaxCost
MaxRows == 3       \* rows of the table given to abc_classification
MaxValue == 2      \* TotalValue of a row ranges over 0..MaxValue, or is missing
MaxObs == 2        \* rows of the demand history given to lmh_vod_classification
MaxMonths == 2     \* the window length months ranges over 1..MaxMonths
ClockMonth == 14   \* the month the clock shows, counted from a January
MaxTicks == 1      \* months the clock may advance between two pipeline runs

(***************************************************************************)
(* Arithmetic helpers.                                                     *)
(***************************************************************************)
Abs(x) == IF x < 0 THEN -x ELSE x
Sgn(x) == IF x < 0 THEN -1 ELSE IF x = 0 THEN 0 ELSE 1
Min(a, b) == IF a <= b THEN a ELSE b

RECURSIVE GCD(_, _)
GCD(a, b) == IF b = 0 THEN a ELSE GCD(b, a % b)

NaN == [k |-> "nan", n |-> 0, d |-> 1, r |-> FALSE]
PosInf == [k |-> "inf", n |-> 0, d |-> 1, r |-> FALSE]
NegInf == [k |-> "ninf", n |-> 0, d |-> 1, r |-> FALSE]

\* the rational n/d (d > 0) in lowest terms
Rat(n, d) ==
    LET g == GCD(Abs(n), d)
    IN  [k |-> "fin", n |-> n \div g, d |-> d \div g, r |-> FALSE]

\* the signed root s*sqrt(n/d) (n >= 0, d > 0, s the sign)
Root(s, n, d) ==
    IF n = 0 \/ s = 0 THEN Rat(0, 1)
    ELSE LET g == GCD(n, d)
         IN  [k |-> "fin", n |-> s * (n \div g), d |-> d \div g, r |-> TRUE]

Num(i) == Rat(i, 1)

IsFin(x) == x.k = "fin"
IsZero(x) == IsFin(x) /\ x.n = 0
\* sign of a number that is not NaN
SignOf(x) == IF x.k = "inf" THEN 1 ELSE IF x.k = "ninf" THEN -1 ELSE Sgn(x.n)
Inf(s) == IF s > 0 THEN PosInf ELSE NegInf

\* x as a signed root
AsRoot(x) == IF x.r THEN x ELSE [k |-> "fin", n |-> Sgn(x.n) * x.n * x.n, d |-> x.d * x.d, r |-> TRUE]

\* IEEE multiplication
Mul(x, y) ==
    IF x.k = "nan" \/ y.k = "nan" THEN NaN
    ELSE IF ~IsFin(x) \/ ~IsFin(y)
         THEN IF IsZero(x) \/ IsZero(y) THEN NaN ELSE Inf(SignOf(x) * SignOf(y))
    ELSE IF x.r \/ y.r
         THEN LET a == AsRoot(x)
                  b == AsRoot(y)
              IN  Root(Sgn(a.n) * Sgn(b.n), Abs(a.n) * Abs(b.n), a.d * b.d)
    ELSE Rat(x.n * y.n, x.d * y.d)

\* IEEE addition (finite operands are rationals)
Add(x, y) ==
    IF x.k = "nan" \/ y.k = "nan" THEN NaN
    ELSE IF ~IsFin(x) /\ ~IsFin(y) THEN (IF x.k = y.k THEN x ELSE NaN)
    ELSE IF ~IsFin(x) THEN x
    ELSE IF ~IsFin(y) THEN y
    ELSE Rat(x.n * y.d + y.n * x.d, x.d * y.d)

\* IEEE division by a number that is not zero (a finite divisor is a rational)
Div(x, y) ==
    IF x.k = "nan" \/ y.k = "nan" THEN NaN
    ELSE IF ~IsFin(x) /\ ~IsFin(y) THEN NaN
    ELSE IF ~IsFin(x) THEN Inf(SignOf(x) * SignOf(y))
    ELSE IF ~IsFin(y) THEN Rat(0, 1)
    ELSE Mul(x, Rat(Sgn(y.n) * y.d, Abs(y.n)))

\* np.sqrt of a rational: NaN below zero
Sqrt(x) ==
    IF x.k = "nan" \/ x.k = "ninf" THEN NaN
    ELSE IF x.k = "inf" THEN PosInf
    ELSE IF x.n < 0 THEN NaN
    ELSE Root(1, x.n, x.d)

\* x < 0 and x <= 0 as IEEE comparisons (FALSE on NaN)
LtZero(x) == x.k # "nan" /\ SignOf(x) < 0
LeZero(x) == x.k # "nan" /\ SignOf(x) <= 0

\* Python's max(x, 0.0): x is kept unless 0.0 > x, so NaN is kept
PyMax0(x) == IF LtZero(x) THEN Rat(0, 1) ELSE x

\* round(n/d), ties to even (Python's round)
RoundHalfEven(n, d) ==
    LET q == n \div d
        m == n % d
    IN  IF 2 * m < d THEN q
        ELSE IF 2 * m > d THEN q + 1
        ELSE IF q % 2 = 0 THEN q ELSE q + 1

RECURSIVE FloorSqrt(_, _, _)
\* the largest k' >= k with k'*k'*d <= n
FloorSqrt(n, d, k) == IF (k + 1) * (k + 1) * d > n THEN k ELSE FloorSqrt(n, d, k + 1)

\* round(sqrt(n/d)), ties to even
RoundSqrt(n, d) ==
    LET k == FloorSqrt(n, d, 0)
        mid == (2 * k + 1) * (2 * k + 1) * d
    IN  IF 4 * n < mid THEN k
        ELSE IF 4 * n > mid THEN k + 1
        ELSE IF k % 2 = 0 THEN k ELSE k + 1

\* int(round(x)) of a finite number
RoundInt(x) == IF x.r THEN Sgn(x.n) * RoundSqrt(Abs(x.n), x.d) ELSE RoundHalfEven(x.n, x.d)

(***************************************************************************)
(* inventory_math.py                                                       *)
(***************************************************************************)
\* lt_m = max(float(lead_time_days) / 30.0, 0.0)
LeadTimeMonths(lead_time_days) == PyMax0(Div(lead_time_days, Num(30)))

\* safety_stock without the "ss < 0" test of line 36
safety_stock_no_clamp(std_monthly, lead_time_days, z) ==
    LET lt_m == LeadTimeMonths(lead_time_days)
        ss == Mul(Mul(z, std_monthly), Sqrt(lt_m))
    IN  IF ~IsFin(ss) THEN 0 ELSE RoundInt(ss)

safety_stock(std_monthly, lead_time_days, z) ==
    LET lt_m == LeadTimeMonths(lead_time_days)
        ss == Mul(Mul(z, std_monthly), Sqrt(lt_m))
    IN  IF ~IsFin(ss) \/ LtZero(ss) THEN 0 ELSE RoundInt(ss)

\* safety_stock_units is an int
reorder_point(avg_monthly, lead_time_days, safety_stock_units) ==
    LET lt_m == LeadTimeMonths(lead_time_days)
        rop == Add(Mul(avg_monthly, lt_m), Num(safety_stock_units))
    IN  IF ~IsFin(rop) \/ LtZero(rop) THEN 0 ELSE RoundInt(rop)

eoq(annual_demand, ordering_cost, unit_cost, holding_rate) ==
    LET h == Mul(unit_cost, holding_rate)
        q == Sqrt(Div(Mul(Mul(Num(2), annual_demand), ordering_cost), h))
    IN  IF LeZero(h) \/ LeZero(annual_demand) \/ LeZero(ordering_cost) THEN 0
        ELSE IF ~IsFin(q) \/ LtZero(q) THEN 0
        ELSE RoundInt(q)

(***************************************************************************)
(* Scenario: one call of an inventory_math function on arbitrary doubles.  *)
(***************************************************************************)
ArgVals == {NaN, PosInf, NegInf} \cup {Num(i) : i \in -1 .. MaxArg}
IntArgVals == -1 .. MaxArg

NoCall == [fn |-> None, a |-> <<>>]

InitMath ==
    /\ pc = "math"
    /\ \/ \E s \in ArgVals, l \in ArgVals, z \in ArgVals :
            call = [fn |-> "safety_stock", a |-> <<s, l, z>>]
       \/ \E a \in ArgVals, l \in ArgVals, s \in IntArgVals :
            call = [fn |-> "reorder_point", a |-> <<a, l, Num(s)>>]
       \/ \E d \in ArgVals, o \in ArgVals, u \in ArgVals, h \in ArgVals :
            call = [fn |-> "eoq", a |-> <<d, o, u, h>>]
    /\ result = None
    /\ sales = <<>> /\ inv = <<>> /\ cfg = None /\ now = 0
    /\ abc = <<>> /\ lmh = <<>> /\ nine = <<>>
    /\ params = <<>> /\ recs = <<>> /\ prev = None /\ runs = <<>>

otherMath == <<sales, inv, cfg, now, abc, lmh, nine, params, recs, prev, runs>>

CallSafetyStock ==
    /\ pc = "math" /\ call.fn = "safety_stock"
    /\ result' = safety_stock(call.a[1], call.a[2], call.a[3])
    /\ pc' = "returned"
    /\ UNCHANGED <<call, otherMath>>

CallReorderPoint ==
    /\ pc = "math" /\ call.fn = "reorder_point"
    /\ result' = reorder_point(call.a[1], call.a[2], call.a[3].n)
    /\ pc' = "returned"
    /\ UNCHANGED <<call, otherMath>>

CallEoq ==
    /\ pc = "math" /\ call.fn = "eoq"
    /\ result' = eoq(call.a[1], call.a[2], call.a[3], call.a[4])
    /\ pc' = "returned"
    /\ UNCHANGED <<call, otherMath>>

NextMath == CallSafetyStock \/ CallReorderPoint \/ CallEoq

SpecMath == InitMath /\ [][NextMath]_vars

\* an input that is 0, negative or non-finite
BadInput(x) == ~IsFin(x) \/ x.n <= 0
ZeroOrNonFinite(x) == ~IsFin(x) \/ x.n = 0
Negative(x) == x.k = "ninf" \/ (IsFin(x) /\ x.n < 0)
Returned(fn) == pc = "returned" /\ call.fn = fn

\* C7 (as stated): safety_stock, reorder_point and eoq each return an integer
\* >= 0, and each returns 0 whenever any of its required inputs is 0, negative
\* or non-finite.
C7_AsStated ==
    pc = "returned" =>
        /\ result \in Nat
        /\ (\E i \in DOMAIN call.a : BadInput(call.a[i])) => result = 0

\* C7 (amended): each function returns an integer >= 0.  safety_stock returns
\* 0 whenever an input is 0 or non-finite, the lead time is negative, or
\* exactly one of std_monthly and z is negative.  eoq returns 0 whenever an
\* input is 0 or non-finite, annual_demand or ordering_cost is negative, or
\* exactly one of unit_cost and holding_rate is negative.  reorder_point
\* returns 0 whenever avg_monthly is non-finite, lead_time_days is NaN or
\* +inf, or avg_monthly * max(lead_time_days, 0) / 30 + safety_stock_units is
\* negative; with avg_monthly = 0 or lead_time_days <= 0 (avg_monthly finite,
\* lead_time_days neither NaN nor +inf) it returns safety_stock_units when
\* that is >= 0, so a zero input does not force 0.
C7_Amended ==
    /\ pc = "returned" => result \in Nat
    /\ Returned("safety_stock") =>
          LET s == call.a[1]
              l == call.a[2]
              z == call.a[3]
          IN  (\/ ZeroOrNonFinite(s) \/ ZeroOrNonFinite(l) \/ ZeroOrNonFinite(z)
               \/ Negative(l)
               \/ Negative(s) # Negative(z)) => result = 0
    /\ Returned("eoq") =>
          LET d == call.a[1]
              o == call.a[2]
              u == call.a[3]
              h == call.a[4]
          IN  (\/ \E i \in 1 .. 4 : ZeroOrNonFinite(call.a[i])
               \/ Negative(d) \/ Negative(o)
               \/ Negative(u) # Negative(h)) => result = 0
    /\ Returned("reorder_point") =>
          LET a == call.a[1]
              l == call.a[2]
              s == call.a[3].n
          IN  /\ (~IsFin(a) \/ l.k \in {"nan", "inf"}) => result = 0
              /\ (IsFin(a) /\ IsFin(l) /\ a.n * (IF l.n > 0 THEN l.n ELSE 0) + 30 * s < 0)
                    => result = 0
              /\ (/\ IsFin(a) /\ l.k \notin {"nan", "inf"}
                  /\ (a.n = 0 \/ Negative(l) \/ IsZero(l)) /\ s >= 0)
                    => result = s

\* reorder_point was called with avg_monthly = 0 and returned the safety stock
C7_Witness ==
    /\ Returned("reorder_point")
    /\ IsZero(call.a[1]) /\ call.a[3].n > 0 /\ result = call.a[3].n

(***************************************************************************)
(* recommendations.py                                                      *)
(***************************************************************************)
\* the row with the columns of extra added or overwritten
With(row, extra) ==
    [f \in DOMAIN row \cup DOMAIN extra |-> IF f \in DOMAIN extra THEN extra[f] ELSE row[f]]

\* the reduce mask without the "+ EOQ" of line 12
ReduceMask_NoEoq(out) == out.TotalInv > out.ReorderPoint

\* line 11 and line 12
OrderMask(out) == out.TotalInv < out.ReorderPoint
ReduceMask(out) == out.TotalInv > out.ReorderPoint + out.EOQ

\* One row of compute_actions.  The tables of this model always carry the
\* TotalPOQty column (main's params_cols), so out.get("TotalPOQty", 0) is it.
ActionRow(row) ==
    LET out0 == With(row, [TotalInv |-> row.OnHandQty + row.TotalPOQty,
                           Action |-> "No Action",
                           Calculated_Quantity |-> 0])
        order == OrderMask(out0)
        reduce == ReduceMask(out0)
        out1 == IF order
                THEN With(out0, [Action |-> "Order", Calculated_Quantity |-> out0.EOQ])
                ELSE out0
        out2 == IF reduce
                THEN With(out1, [Action |-> "Reduce Stock",
                                 Calculated_Quantity |->
                                     out1.TotalInv - (out1.ReorderPoint + out1.EOQ)])
                ELSE out1
    IN  With(out2, [ChangeValue |-> out2.Calculated_Quantity * out2.UnitCost])

compute_actions(df) == [i \in DOMAIN df |-> ActionRow(df[i])]

(***************************************************************************)
(* Scenario: compute_actions on an arbitrary one-row table.                *)
(***************************************************************************)
FreeRows ==
    [PartNum : {1}, OnHandQty : 0 .. MaxQty, TotalPOQty : 0 .. MaxPO,
     ReorderPoint : -1 .. MaxRop, EOQ : -2 .. MaxEoq, UnitCost : 1 .. MaxCost]

InitRec ==
    /\ pc = "ready"
    /\ \E row \in FreeRows : params = <<row>>
    /\ recs = <<>> /\ prev = None
    /\ call = NoCall /\ result = None
    /\ sales = <<>> /\ inv = <<>> /\ cfg = None /\ now = 0
    /\ abc = <<>> /\ lmh = <<>> /\ nine = <<>> /\ runs = <<>>

otherRec == <<call, result, sales, inv, cfg, now, abc, lmh, nine, runs>>

\* one run of compute_actions; prev keeps the Action of the run before
ComputeActions ==
    /\ pc = "ready"
    /\ recs' = compute_actions(params)
    /\ prev' = IF recs = <<>> THEN None ELSE recs[1].Action
    /\ pc' = "computed"
    /\ UNCHANGED <<params, otherRec>>

NextRec == ComputeActions

SpecRec == InitRec /\ [][NextRec]_vars

Position(row) == row.OnHandQty + row.TotalPOQty

\* C1: with position = OnHandQty + TotalPOQty, every row gets the action of
\* the first matching rule: position < ReorderPoint -> "Order", quantity EOQ;
\* else position > ReorderPoint + EOQ -> "Reduce Stock", quantity
\* position - (ReorderPoint + EOQ); else "No Action", quantity 0; and
\* ChangeValue = Calculated_Quantity * UnitCost.
C1_FirstMatch ==
    pc = "computed" =>
        /\ Len(recs) = Len(params)
        /\ \A i \in DOMAIN params :
              LET row == params[i]
                  pos == Position(row)
                  out == recs[i]
              IN  /\ IF pos < row.ReorderPoint
                        THEN out.Action = "Order" /\ out.Calculated_Quantity = row.EOQ
                     ELSE IF pos > row.ReorderPoint + row.EOQ
                        THEN /\ out.Action = "Reduce Stock"
                             /\ out.Calculated_Quantity = pos - (row.ReorderPoint + row.EOQ)
                     ELSE out.Action = "No Action" /\ out.Calculated_Quantity = 0
                  /\ out.ChangeValue = out.Calculated_Quantity * row.UnitCost

(***************************************************************************)
(* Scenario: the recommendation is applied to the inventory position and   *)
(* compute_actions is run again, round after round.  ReorderPoint and EOQ  *)
(* are computed by safety_stock, reorder_point and eoq as main does.       *)
(***************************************************************************)
\* main, lines 34-36: SafetyStock, ReorderPoint and EOQ of one part from its
\* statistics, with ordering_cost = 50.0 and holding_rate = 0.2
OrderingCost == 50
HoldingRate == Rat(1, 5)
PolicyParams(avg_usage, std, lead_time_days, z, unit_cost) ==
    LET ss == safety_stock(std, lead_time_days, z)
    IN  [SafetyStock |-> ss,
         ReorderPoint |-> reorder_point(avg_usage, lead_time_days, ss),
         EOQ |-> eoq(Mul(avg_usage, Num(12)), Num(OrderingCost), unit_cost, HoldingRate)]

\* unit costs for which EOQ = sqrt(6000 * avg / cost) is 0, 1, 2 or 3
LoopCosts == {1500, 6000, 30000}

MathRows ==
    {With([PartNum |-> 1, OnHandQty |-> q, TotalPOQty |-> po, UnitCost |-> u],
          PolicyParams(Num(a), Num(sd), Num(l), Num(z), Num(u))) :
        q \in 0 .. MaxQty, po \in 0 .. MaxPO,
        a \in 0 .. MaxArg, sd \in 0 .. MaxArg, l \in {0, 30}, z \in 1 .. MaxArg,
        u \in LoopCosts}

InitLoop ==
    /\ pc = "ready"
    /\ \E row \in MathRows : params = <<row>>
    /\ recs = <<>> /\ prev = None
    /\ call = NoCall /\ result = None
    /\ sales = <<>> /\ inv = <<>> /\ cfg = None /\ now = 0
    /\ abc = <<>> /\ lmh = <<>> /\ nine = <<>> /\ runs = <<>>

\* The recommendation carried out on one row: an "Order" adds its quantity
\* to the position, a "Reduce Stock" removes it (from the stock on hand
\* first, then from the open purchase orders).  The dashboard projects the
\* inventory the same way: orders added, reductions subtracted.
Applied(row, out) ==
    IF out.Action = "Order"
        THEN With(row, [OnHandQty |-> row.OnHandQty + out.Calculated_Quantity])
    ELSE IF out.Action = "Reduce Stock"
        THEN LET fromStock == Min(row.OnHandQty, out.Calculated_Quantity)
             IN  With(row, [OnHandQty |-> row.OnHandQty - fromStock,
                            TotalPOQty |-> row.TotalPOQty
                                             - (out.Calculated_Quantity - fromStock)])
    ELSE row

ApplyRecommendation ==
    /\ pc = "computed"
    /\ params' = [i \in DOMAIN params |-> Applied(params[i], recs[i])]
    /\ pc' = "ready"
    /\ UNCHANGED <<recs, prev, otherRec>>

NextLoop == ComputeActions \/ ApplyRecommendation

SpecLoop == InitLoop /\ [][NextLoop]_vars

\* the rounds never stop: every recommendation is applied and recomputed
FairLoop == SpecLoop /\ WF_vars(NextLoop)

Computed == pc = "computed" /\ recs # <<>>
LastAction == recs[1].Action
Stuck == params[1].EOQ = 0 /\ Position(params[1]) < params[1].ReorderPoint

\* an "Order" is never followed by "Reduce Stock", and a "Reduce Stock" is
\* always followed immediately by "No Action"
NoAlternation ==
    /\ [](Computed /\ prev = "Order" => LastAction # "Reduce Stock")
    /\ [](Computed /\ prev = "Reduce Stock" => LastAction = "No Action")

\* C10 (as stated): with ReorderPoint >= 0 and EOQ >= 0 produced by
\* InventoryMath, applying each recommendation and recomputing reaches
\* "No Action" after finitely many rounds and never alternates between
\* "Order" and "Reduce Stock".
C10_AsStated == NoAlternation /\ <>(Computed /\ LastAction = "No Action")

\* C10 (amended): the recommendations never alternate; they reach
\* "No Action" after finitely many rounds whenever EOQ >= 1 or the position
\* is at least the reorder point; a part with EOQ = 0 and position below
\* its reorder point is recommended "Order" with quantity 0 in every round
\* and never leaves that state.
C10_Amended ==
    /\ NoAlternation
    /\ (~Stuck ~> (Computed /\ LastAction = "No Action"))
    /\ [](Stuck /\ Computed => LastAction = "Order" /\ recs[1].Calculated_Quantity = 0)
    /\ [][Stuck => Stuck']_vars

\* an "Order" was applied and the next round recommends "No Action"
C10_Witness ==
    /\ Computed /\ prev = "Order" /\ LastAction = "No Action"
    /\ params[1].EOQ >= 1

(***************************************************************************)
(* analysis.py: abc_classification                                         *)
(***************************************************************************)
A_PCT == 75
B_PCT == 95

\* x <= y on doubles (FALSE on NaN); finite numbers are compared by their
\* signed squares, v |-> sgn(v) * v * v being increasing
Le(x, y) ==
    /\ x.k # "nan" /\ y.k # "nan"
    /\ \/ x.k = "ninf" \/ y.k = "inf"
       \/ /\ IsFin(x) /\ IsFin(y)
          /\ AsRoot(x).n * AsRoot(y).d <= AsRoot(y).n * AsRoot(x).d

\* fillna(0.0)
FillNa(v) == IF v.k = "nan" THEN Num(0) ELSE v

PartNums(df) == {df[i].PartNum : i \in DOMAIN df}

RECURSIVE SortedParts(_)
\* the part numbers of a set in increasing order (groupby sorts its keys)
SortedParts(S) ==
    IF S = {} THEN <<>>
    ELSE LET lo == CHOOSE x \in S : \A y \in S : x <= y
         IN  <<lo>> \o SortedParts(S \ {lo})

RECURSIVE SumColumn(_, _, _)
\* sum of column col over the rows of df that belong to part p
SumColumn(df, col, p) ==
    IF df = <<>> THEN Num(0)
    ELSE LET rest == SumColumn(Tail(df), col, p)
         IN  IF Head(df).PartNum = p THEN Add(FillNa(Head(df)[col]), rest) ELSE rest

\* groupby without the aggregation: one output row per input row
GroupSum_NoAgg(df) ==
    [i \in DOMAIN df |-> [PartNum |-> df[i].PartNum, TotalValue |-> FillNa(df[i].TotalValue)]]

\* df.groupby("PartNum", as_index=False)["TotalValue"].sum()
GroupSum(df) ==
    LET keys == SortedParts(PartNums(df))
    IN  [i \in DOMAIN keys |->
            [PartNum |-> keys[i], TotalValue |-> SumColumn(df, "TotalValue", keys[i])]]

\* sort_values("TotalValue", ascending=False) with the default quicksort,
\* which is not stable: every descending arrangement of the rows may result
SortValuesDescending(agg) ==
    LET n == Len(agg)
        perms == {f \in [1 .. n -> 1 .. n] : \A i, j \in 1 .. n : i # j => f[i] # f[j]}
    IN  {[i \in 1 .. n |-> agg[f[i]]] : f \in
            {g \in perms : \A i, j \in 1 .. n :
                i < j => Le(agg[g[j]].TotalValue, agg[g[i]].TotalValue)}}

RECURSIVE SumValues(_)
SumValues(rows) ==
    IF rows = <<>> THEN Num(0) ELSE Add(Head(rows).TotalValue, SumValues(Tail(rows)))

\* cumsum forgotten: each row's own value
CumSum_Own(ranked) == [i \in DOMAIN ranked |-> ranked[i].TotalValue]

\* agg["TotalValue"].cumsum()
CumSum(ranked) == [i \in DOMAIN ranked |-> SumValues(SubSeq(ranked, 1, i))]

\* float(agg["TotalValue"].sum()) or 1.0
TotalOr1(agg) == LET t == SumValues(agg) IN IF IsZero(t) THEN Num(1) ELSE t

cat(pct) ==
    IF Le(pct, Num(A_PCT)) THEN "A"
    ELSE IF Le(pct, Num(B_PCT)) THEN "B"
    ELSE "C"

\* lines 21-33 on the sorted table
Classified(ranked) ==
    LET cum == CumSum(ranked)
        total == TotalOr1(ranked)
    IN  [i \in DOMAIN ranked |->
            LET pct == Div(Mul(Num(100), cum[i]), total)
            IN  [PartNum |-> ranked[i].PartNum,
                 TotalValue |-> ranked[i].TotalValue,
                 CumulativePercentage |-> pct,
                 Category |-> cat(pct)]]

\* the tables abc_classification may return
abc_classification(sales_df) ==
    {Classified(ranked) : ranked \in SortValuesDescending(GroupSum(sales_df))}

(***************************************************************************)
(* Scenario: abc_classification on an arbitrary table.                     *)
(***************************************************************************)
Parts == {1, 2, 3}
ValueVals == {NaN} \cup {Num(v) : v \in 0 .. MaxValue}
ValueRows == [PartNum : Parts, TotalValue : ValueVals]

RECURSIVE Tables(_, _)
\* the tables of at most n rows drawn from rows
Tables(rows, n) ==
    IF n = 0 THEN {<<>>}
    ELSE LET shorter == Tables(rows, n - 1)
         IN  shorter \cup {Append(t, r) : t \in {u \in shorter : Len(u) = n - 1}, r \in rows}

InitABC ==
    /\ pc = "abc"
    /\ sales \in Tables(ValueRows, MaxRows)
    /\ abc = <<>>
    /\ call = NoCall /\ result = None
    /\ inv = <<>> /\ cfg = None /\ now = 0
    /\ lmh = <<>> /\ nine = <<>>
    /\ params = <<>> /\ recs = <<>> /\ prev = None /\ runs = <<>>

AbcClassification ==
    /\ pc = "abc"
    /\ abc' \in abc_classification(sales)
    /\ pc' = "abc_done"
    /\ UNCHANGED <<call, result, sales, inv, cfg, now, lmh, nine, params, recs, prev, runs>>

NextABC == AbcClassification

SpecABC == InitABC /\ [][NextABC]_vars

\* the sum of a part's values, row by row from the first (missing as 0)
RECURSIVE ValueUpTo(_, _, _)
ValueUpTo(df, p, i) ==
    IF i = 0 THEN 0
    ELSE ValueUpTo(df, p, i - 1)
           + (IF df[i].PartNum = p /\ IsFin(df[i].TotalValue) THEN df[i].TotalValue.n ELSE 0)

CatRank(c) == CASE c = "A" -> 1 [] c = "B" -> 2 [] c = "C" -> 3

\* C2: the output of abc_classification holds each distinct PartNum of the
\* input exactly once, with TotalValue the sum of that part's rows; its rows
\* are in descending order of value, and along them the category never
\* steps back in the order A < B < C.
C2_OncePerPartMonotone ==
    pc = "abc_done" =>
        /\ Len(abc) = Cardinality(PartNums(sales))
        /\ \A p \in PartNums(sales) :
              /\ Cardinality({i \in DOMAIN abc : abc[i].PartNum = p}) = 1
              /\ \A i \in DOMAIN abc :
                    abc[i].PartNum = p => abc[i].TotalValue = Num(ValueUpTo(sales, p, Len(sales)))
        /\ \A i, j \in DOMAIN abc :
              i < j => /\ Le(abc[j].TotalValue, abc[i].TotalValue)
                       /\ CatRank(abc[i].Category) <= CatRank(abc[j].Category)

\* a part with two rows, one of them missing its value, ranked with another
\* part in a different category
C2_Witness ==
    /\ pc = "abc_done"
    /\ \E i, j \in DOMAIN sales :
          i # j /\ sales[i].PartNum = sales[j].PartNum /\ sales[i].TotalValue = NaN
    /\ Cardinality({abc[i].Category : i \in DOMAIN abc}) >= 2

\* C3: CumulativePercentage never decreases as rank increases, and when the
\* total value of all parts is > 0 the last-ranked part's is exactly 100.
C3_CumulativeMonotone ==
    pc = "abc_done" =>
        /\ \A i, j \in DOMAIN abc :
              i < j => Le(abc[i].CumulativePercentage, abc[j].CumulativePercentage)
        /\ (\E p \in PartNums(sales) : ValueUpTo(sales, p, Len(sales)) > 0)
              => abc[Len(abc)].CumulativePercentage = Num(100)

\* two parts of different positive value have been ranked
C3_Witness ==
    /\ pc = "abc_done" /\ Len(abc) >= 2
    /\ abc[1].TotalValue # abc[2].TotalValue /\ ~IsZero(abc[2].TotalValue)
    /\ abc[Len(abc)].CumulativePercentage = Num(100)

(***************************************************************************)
(* analysis.py: lmh_vod_classification                                     *)
(*                                                                         *)
(* A timestamp is [m, d, t]: the calendar month m counted from a January,  *)
(* the day d of the month and t = 0 for midnight, 1 for a later time of    *)
(* day.  Leap years are left out.                                          *)
(***************************************************************************)
Ts(m, d, t) == [m |-> m, d |-> d, t |-> t]

DaysInMonth(m) ==
    LET k == m % 12
    IN  IF k = 1 THEN 28 ELSE IF k \in {3, 5, 8, 10} THEN 30 ELSE 31

TsLe(a, b) ==
    \/ a.m < b.m
    \/ a.m = b.m /\ (a.d < b.d \/ (a.d = b.d /\ a.t <= b.t))

\* pd.Timestamp(today.year, today.month, 1) + pd.offsets.MonthEnd(0)
CurrentMonthEnd(today) == Ts(today, DaysInMonth(today), 0)

\* ts - pd.DateOffset(months=k): the day is clipped to the month's length
MinusMonths(ts, k) == Ts(ts.m - k, Min(ts.d, DaysInMonth(ts.m - k)), ts.t)

\* ts - pd.offsets.MonthBegin(1): the latest first of a month before ts
MinusMonthBegin(ts) == IF ts.d > 1 THEN Ts(ts.m, 1, ts.t) ELSE Ts(ts.m - 1, 1, ts.t)

StartDate(today, months) == MinusMonthBegin(MinusMonths(CurrentMonthEnd(today), months - 1))

\* line 49
InWindow(date, today, months) ==
    /\ TsLe(StartDate(today, months), date)
    /\ TsLe(date, CurrentMonthEnd(today))

\* pd.period_range(start=start_date, end=current_month_end, freq="M")
AllMonths(today, months) ==
    LET first == StartDate(today, months).m
    IN  [i \in 1 .. (CurrentMonthEnd(today).m - first + 1) |-> first + i - 1]

RECURSIVE DemandIn(_, _, _)
\* pivot cell: the demand of part p summed over the rows of df in month mo
DemandIn(df, p, mo) ==
    IF df = <<>> THEN 0
    ELSE DemandIn(Tail(df), p, mo)
           + (IF Head(df).PartNum = p /\ Head(df).Date.m = mo THEN Head(df).TotalDemand ELSE 0)

RECURSIVE SumSeq(_)
SumSeq(xs) == IF xs = <<>> THEN 0 ELSE Head(xs) + SumSeq(Tail(xs))

\* std(axis=1, ddof=1): NaN on fewer than two columns
StdDdof1(xs) ==
    LET n == Len(xs)
        sum == SumSeq(xs)
        sq == SumSeq([i \in DOMAIN xs |-> xs[i] * xs[i]])
    IN  IF n < 2 THEN NaN ELSE Root(1, n * sq - sum * sum, n * (n - 1))

Mean(xs) == IF xs = <<>> THEN NaN ELSE Rat(SumSeq(xs), Len(xs))

\* np.where(avg_usage == 0, 0.0, std / avg_usage)
Vod(std, avg) == IF IsZero(avg) THEN Num(0) ELSE Div(std, avg)

\* np.select(conditions, ["L", "M", "H"], default="H")
SelectLMH(vod, low_t, high_t) ==
    IF Le(vod, low_t) THEN "L"
    ELSE IF ~Le(vod, low_t) /\ vod.k # "nan" /\ Le(vod, high_t) THEN "M"
    ELSE "H"

\* line 72 left out
Override_Never(class, sufficient) == class

\* pivot.loc[~pivot["has_sufficient_data"], "LMH"] = "H"
Override(class, sufficient) == IF sufficient THEN class ELSE "H"

lmh_vod_classification(sales_df, months, low_t, high_t, min_transactions, today) ==
    LET df == SelectSeq(sales_df, LAMBDA r : InWindow(r.Date, today, months))
        all_months == AllMonths(today, months)
        keys == SortedParts(PartNums(df))
    IN  [i \in DOMAIN keys |->
            LET p == keys[i]
                row == [j \in DOMAIN all_months |-> DemandIn(df, p, all_months[j])]
                used == SubSeq(row, 1, Min(months, Len(row)))
                txn == Len(SelectSeq(df, LAMBDA r : r.PartNum = p))
                std == StdDdof1(used)
                avg == Mean(used)
                vod == Vod(std, avg)
            IN  [PartNum |-> p, vod |-> vod, avg_usage |-> avg, std |-> std,
                 LMH |-> Override(SelectLMH(vod, low_t, high_t), txn >= min_transactions)]]

(***************************************************************************)
(* analysis.py: make_nine_box                                              *)
(***************************************************************************)
Missing == "NaN"

RECURSIVE LeftMerge(_, _, _)
\* left.merge(right[cols], on="PartNum", how="left"), cols = DOMAIN blank:
\* every left row with each right row of its PartNum, or once with the
\* columns missing (blank gives the missing value of each column)
LeftMerge(left, right, blank) ==
    IF left = <<>> THEN <<>>
    ELSE LET l == Head(left)
             hits == SelectSeq(right, LAMBDA r : r.PartNum = l.PartNum)
             joined == IF hits = <<>>
                       THEN <<With(l, blank)>>
                       ELSE [i \in DOMAIN hits |-> With(l, [c \in DOMAIN blank |-> hits[i][c]])]
         IN  joined \o LeftMerge(Tail(left), right, blank)

\* Category + LMH with a missing operand is missing
Concat(a, b) == IF a = Missing \/ b = Missing THEN Missing ELSE a \o b

\* make_nine_box without the fillna("H") of line 79
make_nine_box_no_fill(abc_df, lmh_df) ==
    LET df == LeftMerge(abc_df, lmh_df, [LMH |-> Missing])
    IN  [i \in DOMAIN df |-> With(df[i], [NineBox |-> Concat(df[i].Category, df[i].LMH)])]

\* the column "9_box" is the field NineBox
make_nine_box(abc_df, lmh_df) ==
    LET df == LeftMerge(abc_df, lmh_df, [LMH |-> Missing])
    IN  [i \in DOMAIN df |->
            LET class == IF df[i].LMH = Missing THEN "H" ELSE df[i].LMH
            IN  With(df[i], [LMH |-> class, NineBox |-> Concat(df[i].Category, class)])]

(***************************************************************************)
(* Scenario: main's three classification calls (lines 18-20) on an         *)
(* arbitrary demand history, window length, thresholds and                 *)
(* min_transactions.  Every step sums per part and month, so the order of  *)
(* the rows of the history is immaterial and the tables are enumerated in  *)
(* one order.  TotalValue = TotalDemand * UnitPrice with a unit price of 1.*)
(***************************************************************************)
SegParts == {1, 2}
\* the first midnight of every month from the one before the longest window
\* to the month of the clock, the last evening of the month of the clock and
\* of the month before it, and the midnight that begins the last day of the
\* month of the clock
SegDates ==
    {Ts(m, 1, 0) : m \in (ClockMonth - MaxMonths) .. ClockMonth}
        \cup {Ts(m, DaysInMonth(m), 1) : m \in {ClockMonth - 1, ClockMonth}}
        \cup {Ts(ClockMonth, DaysInMonth(ClockMonth), 0)}
DemandVals == {0, 1}
\* 2.0 is the default low threshold; over so short a window the CV is 0 or
\* between 0.4 and 1.8, so 0 and 2 bring about each of "L", "M" and "H"
Thresholds == {0, 2}

SalesRow(p, date, qty) ==
    [PartNum |-> p, Date |-> date, TotalDemand |-> qty, TotalValue |-> Num(qty)]

RowKey(r) ==
    (((r.PartNum * 100 + r.Date.m) * 100 + r.Date.d) * 2 + r.Date.t) * 100 + r.TotalDemand

RECURSIVE SortedTables(_, _)
\* the tables of at most n rows drawn from rows, in increasing key order
SortedTables(rows, n) ==
    IF n = 0 THEN {<<>>}
    ELSE LET shorter == SortedTables(rows, n - 1)
             longest == {u \in shorter : Len(u) = n - 1}
         IN  shorter \cup
             UNION {{Append(t, r) : r \in {x \in rows : t = <<>> \/ RowKey(t[Len(t)]) <= RowKey(x)}} :
                       t \in longest}

Configs ==
    [months : 1 .. MaxMonths, low_t : Thresholds, high_t : Thresholds,
     min_transactions : 1 .. MaxObs]

InitSeg ==
    /\ pc = "seg"
    /\ sales \in SortedTables({SalesRow(p, d, q) : p \in SegParts, d \in SegDates,
                                                   q \in DemandVals}, MaxObs)
    /\ cfg \in Configs
    /\ now = ClockMonth
    /\ abc = <<>> /\ lmh = <<>> /\ nine = <<>>
    /\ call = NoCall /\ result = None
    /\ inv = <<>> /\ params = <<>> /\ recs = <<>> /\ prev = None /\ runs = <<>>

\* main, lines 18-20: abc_classification, lmh_vod_classification (which
\* reads the clock) and make_nine_box
Classify ==
    /\ pc = "seg"
    /\ \E a \in abc_classification(sales) :
          LET l == lmh_vod_classification(sales, cfg.months, Num(cfg.low_t), Num(cfg.high_t),
                                          cfg.min_transactions, now)
          IN  /\ abc' = a
              /\ lmh' = l
              /\ nine' = make_nine_box(a, l)
    /\ pc' = "seg_done"
    /\ UNCHANGED <<call, result, sales, inv, cfg, now, params, recs, prev, runs>>

NextSeg == Classify

SpecSeg == InitSeg /\ [][NextSeg]_vars

\* the calendar months of the window: the `months` months ending with the
\* month of the clock
CalendarMonths == (now - cfg.months + 1) .. now

\* the rows of part p dated in a calendar month of the window
RowsInCalendar(p) ==
    {i \in DOMAIN sales : sales[i].PartNum = p /\ sales[i].Date.m \in CalendarMonths}

\* those of them dated on the last day of the last month, after midnight
LateRows(p) ==
    {i \in RowsInCalendar(p) :
        sales[i].Date.m = now /\ sales[i].Date.d = DaysInMonth(now) /\ sales[i].Date.t > 0}

\* the demand of part p in calendar month mo, over all its observations
RECURSIVE CalendarDemand(_, _, _)
CalendarDemand(p, mo, i) ==
    IF i = 0 THEN 0
    ELSE CalendarDemand(p, mo, i - 1)
           + (IF sales[i].PartNum = p /\ sales[i].Date.m = mo THEN sales[i].TotalDemand ELSE 0)

MonthDemand(p, mo) == CalendarDemand(p, mo, Len(sales))

LmhRows(p) == {i \in DOMAIN lmh : lmh[i].PartNum = p}
NineRows(p) == {i \in DOMAIN nine : nine[i].PartNum = p}

\* C5: a part with fewer raw demand rows inside the window than
\* min_transactions (none at all included) has variability class "H" in the
\* segment grid, whatever the thresholds.  The rows counted are those of
\* the calendar months of the window, or the fewer ones the filter keeps.
C5_InsufficientIsH ==
    pc = "seg_done" =>
        \A p \in PartNums(sales) :
            (\/ Cardinality(RowsInCalendar(p)) < cfg.min_transactions
             \/ Cardinality(RowsInCalendar(p) \ LateRows(p)) < cfg.min_transactions)
                => /\ NineRows(p) # {}
                   /\ \A i \in NineRows(p) :
                         nine[i].LMH = "H" /\ nine[i].NineBox = nine[i].Category \o "H"

\* a part whose CV alone gives "L" but with too few rows, and a part with
\* no row in the window at all
C5_Witness ==
    /\ pc = "seg_done"
    /\ \E p \in PartNums(sales) :
          /\ LmhRows(p) # {}
          /\ \A i \in LmhRows(p) :
                /\ ~IsZero(lmh[i].vod) /\ Le(lmh[i].vod, Num(cfg.low_t))
                /\ lmh[i].LMH = "H"
          /\ Cardinality(RowsInCalendar(p)) < cfg.min_transactions
    /\ \E p \in PartNums(sales) : LmhRows(p) = {} /\ NineRows(p) # {}

\* C6: a part whose monthly demand is the same in every month of the window
\* gets CV = 0 and class "L" for all thresholds and every window length
\* months >= 1, or class "H" when it has fewer rows than min_transactions.
\* Parts with a row the filter drops (see C9) are left aside.
C6_ConstantIsL ==
    pc = "seg_done" =>
        \A p \in PartNums(sales) :
            (/\ RowsInCalendar(p) # {} /\ LateRows(p) = {}
             /\ \A m1, m2 \in CalendarMonths : MonthDemand(p, m1) = MonthDemand(p, m2))
                => /\ LmhRows(p) # {}
                   /\ \A i \in LmhRows(p) :
                         /\ lmh[i].vod = Num(0)
                         /\ lmh[i].LMH =
                               IF Cardinality(RowsInCalendar(p)) < cfg.min_transactions
                               THEN "H" ELSE "L"

\* C9: the window is a gap-free calendar of exactly `months` months, and for
\* every part with a row in it the mean and the standard deviation are
\* those of the demand summed per calendar month over all of the part's
\* observations of that month, any day and time of day.
C9_WholeMonths ==
    pc = "seg_done" =>
        /\ AllMonths(now, cfg.months) = [i \in 1 .. cfg.months |-> now - cfg.months + i]
        /\ \A p \in PartNums(sales) :
              RowsInCalendar(p) # {} =>
                  LET monthly == [i \in 1 .. cfg.months |-> MonthDemand(p, now - cfg.months + i)]
                  IN  /\ LmhRows(p) # {}
                      /\ \A i \in LmhRows(p) :
                            /\ lmh[i].avg_usage = Rat(SumSeq(monthly), cfg.months)
                            /\ cfg.months >= 2 => lmh[i].std = StdDdof1(monthly)

(***************************************************************************)
(* inventory_math.py: ServiceLevelPolicy                                   *)
(***************************************************************************)
\* ServiceLevelPolicy.default(), in percent
DefaultPolicy ==
    [AL |-> 97, AM |-> 97, AH |-> 97, BL |-> 93, BM |-> 93, BH |-> 93,
     CL |-> 90, CM |-> 90, CH |-> 85]

\* policy.get(nine_box), in percent
PolicyGet(nine_box) == IF nine_box \in DOMAIN DefaultPolicy THEN DefaultPolicy[nine_box] ELSE 85

\* policy.z(nine_box): norm.ppf of the service level, to two decimals
PolicyZ(nine_box) ==
    LET sl == PolicyGet(nine_box)
    IN  Rat(CASE sl = 97 -> 188 [] sl = 93 -> 148 [] sl = 90 -> 128 [] OTHER -> 104, 100)

(***************************************************************************)
(* build_demo_data.py: main, lines 18-47, on given inv and sales tables    *)
(***************************************************************************)
\* lines 24-36 and 46: one row of inventory_params per row of merged
InventoryParams(inv_df, nine_df, lmh_df) ==
    LET merged0 == LeftMerge(inv_df, nine_df, [Category |-> Missing, NineBox |-> Missing])
        merged1 == [i \in DOMAIN merged0 |->
                       With(merged0[i],
                            [Category |-> IF merged0[i].Category = Missing
                                          THEN "C" ELSE merged0[i].Category,
                             NineBox |-> IF merged0[i].NineBox = Missing
                                         THEN "CH" ELSE merged0[i].NineBox])]
        merged == LeftMerge(merged1, lmh_df,
                            [avg_usage |-> NaN, std |-> NaN, LMH |-> Missing, vod |-> NaN])
    IN  [i \in DOMAIN merged |->
            LET r == merged[i]
                pp == PolicyParams(r.avg_usage, r.std, Num(r.LeadTimeDays),
                                   PolicyZ(r.NineBox), Num(r.UnitCost))
            IN  [PartNum |-> r.PartNum, Description |-> r.Description,
                 Category |-> r.Category, LMH |-> r.LMH, NineBox |-> r.NineBox,
                 vod |-> r.vod, AvgMonthlyDemand |-> r.avg_usage,
                 StdMonthlyDemand |-> r.std, LeadTimeDays |-> r.LeadTimeDays,
                 SafetyStock |-> pp.SafetyStock, ReorderPoint |-> pp.ReorderPoint,
                 EOQ |-> pp.EOQ, OnHandQty |-> r.OnHandQty, TotalPOQty |-> r.TotalPOQty,
                 MinOrderQty |-> r.MinOrderQty, UnitCost |-> r.UnitCost,
                 TotalValue |-> r.TotalValue, ServiceLevel |-> PolicyGet(r.NineBox)]]

(***************************************************************************)
(* Scenario: the pipeline is run twice on the same inv and sales tables    *)
(* and the same configuration; the clock may advance between the runs.     *)
(* The catalog holds parts 1 and 2; part 3 is sold but not in the catalog. *)
(***************************************************************************)
PartRow(p, onHand, cost) ==
    [PartNum |-> p, Description |-> "Sample Part", OnHandQty |-> onHand, UnitCost |-> cost,
     LeadTimeDays |-> 30, MinOrderQty |-> 0, TotalPOQty |-> 0, TotalValue |-> onHand * cost]

Catalogs == {<<PartRow(1, MaxQty, 1500), PartRow(2, 0, 30000)>>}

PipeDates ==
    {Ts(m, 1, 0) : m \in (ClockMonth - MaxMonths) .. ClockMonth}
        \cup {Ts(ClockMonth, DaysInMonth(ClockMonth), 1)}

\* the default thresholds 2.0 and 4.0; min_transactions 1, or 3 (the default)
PipeConfigs ==
    [months : 1 .. MaxMonths, low_t : {2}, high_t : {4}, min_transactions : {1, 3}]

InitPipe ==
    /\ pc = "pipe"
    /\ sales \in SortedTables({SalesRow(p, d, 1) : p \in Parts, d \in PipeDates}, MaxObs)
    /\ inv \in Catalogs
    /\ cfg \in PipeConfigs
    /\ now = ClockMonth
    /\ abc = <<>> /\ lmh = <<>> /\ nine = <<>> /\ params = <<>> /\ recs = <<>>
    /\ runs = <<>>
    /\ call = NoCall /\ result = None /\ prev = None

\* one run of main on the tables.  The ranking sort does not specify the order
\* of equal values, but it is a deterministic algorithm: on the same table a
\* second run orders them as the first did.
Main ==
    /\ pc = "pipe" /\ Len(runs) < 2
    /\ \E a \in {x \in abc_classification(sales) : runs = <<>> \/ x = abc} :
          LET l == lmh_vod_classification(sales, cfg.months, Num(cfg.low_t), Num(cfg.high_t),
                                          cfg.min_transactions, now)
              n == make_nine_box(a, l)
              ip == InventoryParams(inv, n, l)
              rec == compute_actions(ip)
          IN  /\ abc' = a /\ lmh' = l /\ nine' = n
              /\ params' = ip /\ recs' = rec
              /\ runs' = Append(runs, [inventory_params |-> ip, recommendations |-> rec])
    /\ UNCHANGED <<pc, call, result, sales, inv, cfg, now, prev>>

\* time passes between the two runs
Tick ==
    /\ pc = "pipe" /\ Len(runs) = 1
    /\ now < ClockMonth + MaxTicks
    /\ now' = now + 1
    /\ UNCHANGED <<pc, call, result, sales, inv, cfg, abc, lmh, nine, params, recs, prev, runs>>

NextPipe == Main \/ Tick

SpecPipe == InitPipe /\ [][NextPipe]_vars

NineCodes == {c \o v : c \in {"A", "B", "C"}, v \in {"L", "M", "H"}}

\* the code a table row carries agrees with its Category and its class
\* (a missing class counting as "H")
CodeAgrees(row) ==
    /\ row.NineBox \in NineCodes
    /\ row.NineBox = row.Category \o (IF row.LMH = Missing THEN "H" ELSE row.LMH)

\* C4: in make_nine_box's output and in the InventoryParams and
\* Recommendations tables the segment code is one of the 9 codes and is the
\* row's Category followed by its class LMH ("H" for a part without a
\* variability record), and every part of the Parts table has exactly one
\* row in each output table.
C4_NineBoxCarried ==
    runs # <<>> =>
        /\ \A i \in DOMAIN nine : CodeAgrees(nine[i])
        /\ \A t \in {params, recs} :
              /\ \A i \in DOMAIN t : CodeAgrees(t[i])
              /\ \A j \in DOMAIN inv :
                    Cardinality({i \in DOMAIN t : t[i].PartNum = inv[j].PartNum}) = 1
              /\ Len(t) = Len(inv)

\* a part of category "A" sold only before the window, a part never sold
\* and a part classified from its demand
C4_Witness ==
    /\ runs # <<>>
    /\ \E i \in DOMAIN params :
          params[i].LMH = Missing /\ params[i].NineBox = "AH"
    /\ \E i \in DOMAIN params :
          params[i].LMH = Missing /\ params[i].PartNum \notin PartNums(sales)

\* C8: two runs of the pipeline on identical tables and configuration give
\* identical InventoryParams and Recommendations tables, whenever each of the
\* runs happens.
C8_Deterministic == Len(runs) = 2 => runs[1] = runs[2]

====
